---- MODULE Spec2Model ----
(***************************************************************************)
(* Model of the deadlock detection tool:                                   *)
(*   src/deadlock_detecting_withinput.py  (tracker with caller-driven      *)
(*        add_process / allocate_resource / set_waiting_for / clear)       *)
(*   src/deadlock_detector.py             (tracker fed by psutil)          *)
(*   src/os.py                            (standalone detect_deadlock)     *)
(*                                                                         *)
(* Python objects are modelled with an explicit heap: a dict or a list is  *)
(* an object with an identity, `self.processes` maps a pid to a REFERENCE  *)
(* to the per-process dict, `self.resources` maps a resource id to a       *)
(* reference to the holder list.  dict.copy() and dict(d) copy the         *)
(* references, not the objects they point to.                              *)
(*                                                                         *)
(* Process ids are integers (simpledialog.askinteger), resource ids and    *)
(* names are non-empty strings (the dialogs drop empty answers).  Strings  *)
(* that the program takes apart are sequences of one-character strings.    *)
(* Not modelled: the iteration order of dicts (it decides only the order   *)
(* in which networkx lists cycles and the node a cycle starts with) and    *)
(* the wall-clock text stored in a record's 'time' field.                  *)
(***************************************************************************)
EXTENDS Integers, Sequences, FiniteSets, TLC

VARIABLES
    processes,          \* tracker.processes : pid -> reference of the process dict
    resources,          \* tracker.resources : rid -> reference of the holder list
    heap,               \* reference -> object (process dict or holder list)
    running,            \* tracker.running
    lock,               \* tracker.lock : None or the thread that holds it
    detection_history,  \* detector.detection_history
    snap,               \* the snapshot a caller keeps: None or Some(snapshot)
    last_op,            \* the name of the last completed call
    last_ret,           \* the value it returned: None or Some(value)
    pc,                 \* thread -> position in its code
    loc                 \* thread -> local variables of the running call

vars == <<processes, resources, heap, running, lock, detection_history,
          snap, last_op, last_ret, pc, loc>>

store == <<processes, resources, heap>>

----------------------------------------------------------------------------
(* Bounds and input domains *)

MaxHeld == 1            \* longest 'resources' list of a process
MaxHolders == 1         \* longest holder list of a resource
MaxHist == 2            \* longest detection history

PIDs == {1, 2}
RIDs == {<<"X">>, <<"Y">>}
Names == {"a"}

\* Python's None and "a value": an optional value is None or Some(v).
None == <<>>
Some(v) == <<v>>
Val(o) == o[1]

----------------------------------------------------------------------------
(* Generic helpers *)

Range(s) == {s[i] : i \in DOMAIN s}

Put(f, k, v) == [x \in (DOMAIN f) \cup {k} |-> IF x = k THEN v ELSE f[x]]

EmptyDict == [x \in {} |-> None]

Min(S) == CHOOSE x \in S : \A y \in S : x <= y

RECURSIVE SetToSeq(_)
SetToSeq(S) ==
    IF S = {} THEN <<>>
    ELSE LET x == CHOOSE y \in S : TRUE IN <<x>> \o SetToSeq(S \ {x})

----------------------------------------------------------------------------
(* The heap: references, allocation, reachability *)

\* A reference is <<kind, key, gen>>: the gen-th object created for that key that
\* is still reachable.  Objects nobody can reach any more are dropped, and a new
\* object takes the smallest generation not referenced by a snapshot.
SnapRefs(s) ==
    IF s = None THEN {} ELSE Range(Val(s).processes) \cup Range(Val(s).resources)

\* References held outside the tracker: the caller's snapshot and the
\* system_state local of every running detect_deadlocks().
HeldRefsIn(sn, lc) ==
    SnapRefs(sn) \cup UNION {SnapRefs(lc[t].system_state) : t \in DOMAIN lc}

HeldRefs == HeldRefsIn(snap, loc)

FreshRef(kind, key, held) ==
    LET used == {r[3] : r \in {q \in held : q[1] = kind /\ q[2] = key}}
    IN  <<kind, key, Min((0..Cardinality(used)) \ used)>>

Collect(st, held) ==
    LET live == Range(st.processes) \cup Range(st.resources) \cup held
    IN  [st EXCEPT !.heap = [r \in (DOMAIN st.heap) \cap live |-> st.heap[r]]]

Tracker == [processes |-> processes, resources |-> resources, heap |-> heap]

----------------------------------------------------------------------------
(* ProcessResourceTracker, statement by statement.  Each operator maps the  *)
(* tracker's state st = [processes, resources, heap] to the state after     *)
(* the statement; `held` are the references snapshots keep alive.           *)

\* __init__ (lines 11-15)
TrackerInit == [processes |-> EmptyDict, resources |-> EmptyDict, heap |-> EmptyDict]

\* Mutant of stmt_add_process: a registered pid keeps the record it has
\* (self.processes.setdefault(pid, {...}))
stmt_add_process_setdefault(st, pid, name, held) ==
    LET ref == FreshRef("proc", pid, held)
        obj == [name |-> name, status |-> "running", resources |-> <<>>,
                waiting_for |-> None]
    IN  IF pid \in DOMAIN st.processes THEN st
        ELSE [st EXCEPT !.processes = Put(st.processes, pid, ref),
                        !.heap = Put(st.heap, ref, obj)]

\* lines 34-39: self.processes[pid] = {...}: a NEW dict object replaces the entry
stmt_add_process(st, pid, name, held) ==
    LET ref == FreshRef("proc", pid, held)
        obj == [name |-> name, status |-> "running", resources |-> <<>>,
                waiting_for |-> None]
    IN  [st EXCEPT !.processes = Put(st.processes, pid, ref),
                   !.heap = Put(st.heap, ref, obj)]

\* line 44: self.resources[resource].append(pid); resources is a
\* defaultdict(list), so a missing key is first bound to a new empty list
stmt_holders_append(st, pid, resource, held) ==
    LET ref == IF resource \in DOMAIN st.resources THEN st.resources[resource]
               ELSE FreshRef("list", resource, held)
        old == IF resource \in DOMAIN st.resources THEN st.heap[ref] ELSE <<>>
    IN  [st EXCEPT !.resources = Put(st.resources, resource, ref),
                   !.heap = Put(st.heap, ref, Append(old, pid))]

\* line 45: self.processes[pid]['resources'].append(resource)
stmt_held_append(st, pid, resource) ==
    LET ref == st.processes[pid]
    IN  [st EXCEPT !.heap[ref].resources = Append(@, resource)]

\* line 52: self.processes[pid]['waiting_for'] = resource
\* Mutant of stmt_set_waiting: a wait target already set is kept
stmt_set_waiting_if_unset(st, pid, resource) ==
    LET ref == st.processes[pid]
    IN  IF st.heap[ref].waiting_for = None
        THEN [st EXCEPT !.heap[ref].waiting_for = Some(resource)]
        ELSE st

stmt_set_waiting(st, pid, resource) ==
    LET ref == st.processes[pid]
    IN  [st EXCEPT !.heap[ref].waiting_for = Some(resource)]

\* lines 58-61: {'processes': self.processes.copy(), 'resources': dict(self.resources)}
\* Both copies are shallow: the new dicts hold the same references.
copy_processes(st) == st.processes
copy_resources(st) == st.resources
snapshot_of(st) == [processes |-> copy_processes(st), resources |-> copy_resources(st)]

\* line 65: self.processes.clear()
stmt_clear_processes(st) == [st EXCEPT !.processes = EmptyDict]
\* line 66: self.resources.clear()
stmt_clear_resources(st) == [st EXCEPT !.resources = EmptyDict]

\* What a snapshot shows to the code that reads it: every reference resolved
\* through the heap at the time of reading.
Content(s, hp) ==
    [processes |-> [p \in DOMAIN s.processes |-> hp[s.processes[p]]],
     resources |-> [r \in DOMAIN s.resources |-> hp[s.resources[r]]]]

LiveContent == Content(snapshot_of(Tracker), heap)

----------------------------------------------------------------------------
(* DeadlockDetector: the graph and its cycles *)

DigitChars == <<"0", "1", "2", "3", "4", "5", "6", "7", "8", "9">>

\* str(n) of a Python int: its decimal digits
RECURSIVE Str(_)
Str(n) ==
    IF n < 0 THEN <<"-">> \o Str(-n)
    ELSE IF n < 10 THEN <<DigitChars[n + 1]>>
    ELSE Str(n \div 10) \o <<DigitChars[(n % 10) + 1]>>

\* f"P{pid}" and f"R{rid}"
PNode(pid) == <<"P">> \o Str(pid)
RNode(rid) == <<"R">> \o rid

\* Python truthiness of pdata['waiting_for']: None and '' are false
Truthy(w) == w # None /\ Val(w) # <<>>

\* lines 92-95: for rid in pdata['resources']: graph.add_edge(f"P{pid}", f"R{rid}")
holds_edges(pid, pdata) == {<<PNode(pid), RNode(rid)>> : rid \in Range(pdata.resources)}

\* Mutant of waits_edges: the waits edge drawn from the process to the resource
waits_edges_reversed(pid, pdata) ==
    IF Truthy(pdata.waiting_for)
    THEN {<<PNode(pid), RNode(Val(pdata.waiting_for))>>}
    ELSE {}

\* Mutant of waits_edges: an edge resource -> process for every resource the
\* process holds as well (the edges of src/deadlock_detector.py)
waits_edges_and_holders(pid, pdata) ==
    {<<RNode(rid), PNode(pid)>> : rid \in Range(pdata.resources)}
    \cup (IF Truthy(pdata.waiting_for)
          THEN {<<RNode(Val(pdata.waiting_for)), PNode(pid)>>}
          ELSE {})

\* lines 98-99: if pdata['waiting_for']: graph.add_edge(f"R{...}", f"P{pid}")
waits_edges(pid, pdata) ==
    IF Truthy(pdata.waiting_for)
    THEN {<<RNode(Val(pdata.waiting_for)), PNode(pid)>>}
    ELSE {}

\* lines 83-99: the nx.DiGraph built from system_state, whose process dicts are
\* read through the heap hp as it is when the loops run.  add_edge also adds
\* the nodes it names.
build_graph(system_state, hp) ==
    LET processes_ == system_state.processes
        resources_ == system_state.resources
        edges == UNION {holds_edges(pid, hp[processes_[pid]])
                          \cup waits_edges(pid, hp[processes_[pid]])
                        : pid \in DOMAIN processes_}
    IN  [nodes |-> {PNode(pid) : pid \in DOMAIN processes_}
                   \cup {RNode(rid) : rid \in DOMAIN resources_}
                   \cup {e[1] : e \in edges} \cup {e[2] : e \in edges},
         edges |-> edges]

Successors(graph, n) == {e[2] : e \in {d \in graph.edges : d[1] = n}}

\* The elementary circuits through root that use only nodes of `allowed`,
\* found by depth-first search along `path` (which starts at root).
RECURSIVE CircuitsFrom(_, _, _, _)
CircuitsFrom(graph, allowed, root, path) ==
    LET succ == Successors(graph, path[Len(path)])
    IN  (IF root \in succ THEN {path} ELSE {})
        \cup UNION {CircuitsFrom(graph, allowed, root, Append(path, v))
                    : v \in (succ \cap allowed) \ Range(path)}

\* Mutant of simple_cycles: one cycle only (what nx.find_cycle gives)
simple_cycles_first_only(graph) ==
    LET ord == SetToSeq(graph.nodes)
        all == SetToSeq(UNION {CircuitsFrom(graph, {ord[j] : j \in (i + 1)..Len(ord)},
                                            ord[i], <<ord[i]>>)
                               : i \in DOMAIN ord})
    IN  IF all = <<>> THEN <<>> ELSE <<all[1]>>

\* Mutant of simple_cycles: each cycle listed as a closed walk, its first node
\* again at the end
simple_cycles_closed(graph) ==
    LET ord == SetToSeq(graph.nodes)
        all == SetToSeq(UNION {CircuitsFrom(graph, {ord[j] : j \in (i + 1)..Len(ord)},
                                            ord[i], <<ord[i]>>)
                               : i \in DOMAIN ord})
    IN  [k \in DOMAIN all |-> Append(all[k], all[k][1])]

\* line 103: list(nx.simple_cycles(graph)): every elementary circuit of the
\* graph once, as the list of its nodes.  Each circuit is found from its first
\* node in a fixed order of the nodes, searching the later nodes only.
simple_cycles(graph) ==
    LET ord == SetToSeq(graph.nodes)
    IN  SetToSeq(UNION {CircuitsFrom(graph, {ord[j] : j \in (i + 1)..Len(ord)},
                                     ord[i], <<ord[i]>>)
                        : i \in DOMAIN ord})

MinCycleLen == 4

\* Mutant of is_deadlock: the threshold at 2 nodes
is_deadlock_from_two(cycle) == Len(cycle) >= 2

\* Mutant of is_deadlock: exactly 4 nodes
is_deadlock_exactly_four(cycle) == Len(cycle) = MinCycleLen

\* line 104: len(cycle) >= 4
is_deadlock(cycle) == Len(cycle) >= MinCycleLen

\* line 104: deadlocks = [cycle for cycle in cycles if len(cycle) >= 4]
filter_deadlocks(cycles) == SelectSeq(cycles, is_deadlock)

\* lines 83-104
find_deadlocks(system_state, hp) == filter_deadlocks(simple_cycles(build_graph(system_state, hp)))

\* lines 106-112: the record appended to detection_history.  Its 'time' (the
\* wall clock) and its 'graph' (the DiGraph object, which only the drawing
\* code reads back) are not kept: the record is its list of cycles.
detection_entry(deadlocks, graph) == [deadlocks |-> deadlocks]

\* Mutant of history_after: the record appended without the `if deadlocks:` test
history_after_always(history, deadlocks, graph) ==
    Append(history, detection_entry(deadlocks, graph))

\* Mutant of history_after: the new record kept in place of the older ones
history_after_newest_only(history, deadlocks, graph) ==
    IF deadlocks # <<>> THEN <<detection_entry(deadlocks, graph)>> ELSE history

\* Mutant of history_after: a record is appended only if no record with the
\* same cycles is there yet
history_after_deduplicated(history, deadlocks, graph) ==
    IF deadlocks # <<>> /\ \A k \in DOMAIN history : history[k].deadlocks # deadlocks
    THEN Append(history, detection_entry(deadlocks, graph))
    ELSE history

\* lines 106-117: history after the call
history_after(history, deadlocks, graph) ==
    IF deadlocks # <<>> THEN Append(history, detection_entry(deadlocks, graph))
    ELSE history

\* lines 106-117: the value returned
detect_result(deadlocks) == IF deadlocks # <<>> THEN Some(deadlocks) ELSE None

----------------------------------------------------------------------------
(* The calls as a whole (what one call does when nothing interleaves).      *)
(* Each gives [st |-> tracker state after, ret |-> returned value].         *)

\* lines 32-39
add_process_call(st, pid, name, held) ==
    [st |-> stmt_add_process(st, pid, name, held), ret |-> None]

\* Mutant of allocate_resource_call: the holder list looked up (and so created
\* by the defaultdict) before the pid is checked
allocate_resource_call_lookup_first(st, pid, resource, held) ==
    LET ref == IF resource \in DOMAIN st.resources THEN st.resources[resource]
               ELSE FreshRef("list", resource, held)
        old == IF resource \in DOMAIN st.resources THEN st.heap[ref] ELSE <<>>
        looked == [st EXCEPT !.resources = Put(st.resources, resource, ref),
                             !.heap = Put(st.heap, ref, old)]
    IN  IF pid \in DOMAIN st.processes
        THEN [st |-> stmt_held_append(stmt_holders_append(looked, pid, resource, held),
                                      pid, resource),
              ret |-> Some(TRUE)]
        ELSE [st |-> looked, ret |-> Some(FALSE)]

\* lines 41-47
allocate_resource_call(st, pid, resource, held) ==
    IF pid \in DOMAIN st.processes
    THEN [st |-> stmt_held_append(stmt_holders_append(st, pid, resource, held),
                                  pid, resource),
          ret |-> Some(TRUE)]
    ELSE [st |-> st, ret |-> Some(FALSE)]

\* lines 49-54
set_waiting_for_call(st, pid, resource) ==
    IF pid \in DOMAIN st.processes
    THEN [st |-> stmt_set_waiting(st, pid, resource), ret |-> Some(TRUE)]
    ELSE [st |-> st, ret |-> Some(FALSE)]

\* Mutant of get_system_state_call: a read that empties the store it has copied
get_system_state_call_draining(st) ==
    [st |-> stmt_clear_resources(stmt_clear_processes(st)), ret |-> Some(snapshot_of(st))]

\* lines 56-61
get_system_state_call(st) == [st |-> st, ret |-> Some(snapshot_of(st))]

\* Mutant of clear_system_call: the process map left as it is
clear_system_call_resources_only(st) ==
    [st |-> stmt_clear_resources(st), ret |-> None]

\* lines 63-66
clear_system_call(st) ==
    [st |-> stmt_clear_resources(stmt_clear_processes(st)), ret |-> None]

----------------------------------------------------------------------------
(* Specification Spec: one caller, calls one after the other *)

NoThreads == [t \in {} |-> None]

Init ==
    /\ processes = TrackerInit.processes
    /\ resources = TrackerInit.resources
    /\ heap = TrackerInit.heap
    /\ running = TRUE
    /\ lock = None
    /\ detection_history = <<>>
    /\ snap = None
    /\ last_op = "init"
    /\ last_ret = None
    /\ pc = NoThreads
    /\ loc = NoThreads

\* The state of the tracker after a call, unreachable objects dropped
Commit(op, r) ==
    LET st == Collect(r.st, HeldRefs)
    IN  /\ last_op' = op
        /\ last_ret' = r.ret
        /\ processes' = st.processes
        /\ resources' = st.resources
        /\ heap' = st.heap

\* The lists stay within the bounds of the model
HeldRoom(pid) ==
    pid \in DOMAIN processes => Len(heap[processes[pid]].resources) < MaxHeld
HoldersRoom(resource) ==
    resource \in DOMAIN resources => Len(heap[resources[resource]]) < MaxHolders

add_process(pid, name) ==
    /\ Commit("add_process", add_process_call(Tracker, pid, name, HeldRefs))
    /\ UNCHANGED <<running, lock, detection_history, snap, pc, loc>>

allocate_resource(pid, resource) ==
    /\ pid \in DOMAIN processes => HeldRoom(pid) /\ HoldersRoom(resource)
    /\ Commit("allocate_resource",
              allocate_resource_call(Tracker, pid, resource, HeldRefs))
    /\ UNCHANGED <<running, lock, detection_history, snap, pc, loc>>

set_waiting_for(pid, resource) ==
    /\ Commit("set_waiting_for", set_waiting_for_call(Tracker, pid, resource))
    /\ UNCHANGED <<running, lock, detection_history, snap, pc, loc>>

get_system_state ==
    /\ Commit("get_system_state", get_system_state_call(Tracker))
    /\ UNCHANGED <<running, lock, detection_history, snap, pc, loc>>

clear_system ==
    /\ Commit("clear_system", clear_system_call(Tracker))
    /\ UNCHANGED <<running, lock, detection_history, snap, pc, loc>>

\* lines 77-117, run without interruption
detect_deadlocks ==
    LET system_state == Val(get_system_state_call(Tracker).ret)
        graph == build_graph(system_state, heap)
        deadlocks == filter_deadlocks(simple_cycles(graph))
    IN  /\ deadlocks # <<>> => Len(detection_history) < MaxHist
        /\ last_op' = "detect_deadlocks"
        /\ last_ret' = detect_result(deadlocks)
        /\ detection_history' = history_after(detection_history, deadlocks, graph)
        /\ UNCHANGED <<processes, resources, heap, running, lock, snap, pc, loc>>

Next ==
    \/ \E pid \in PIDs, name \in Names : add_process(pid, name)
    \/ \E pid \in PIDs, resource \in RIDs : allocate_resource(pid, resource)
    \/ \E pid \in PIDs, resource \in RIDs : set_waiting_for(pid, resource)
    \/ get_system_state
    \/ clear_system
    \/ detect_deadlocks

Spec == Init /\ [][Next]_vars

----------------------------------------------------------------------------
(* Specification SpecSnap: one caller that keeps the snapshot it was given *)

\* system_state = tracker.get_system_state(), kept by the caller while it
\* goes on calling the tracker (as detect_deadlocks and visualize_system do)
keep_system_state ==
    LET r == get_system_state_call(Tracker)
    IN  /\ last_op' = "get_system_state"
        /\ last_ret' = r.ret
        /\ snap' = r.ret
        /\ UNCHANGED <<processes, resources, heap, running, lock,
                       detection_history, pc, loc>>

\* the ids this caller uses
SnapPIDs == {1, 2}
SnapRIDs == {<<"X">>}

NextSnap ==
    \/ \E pid \in SnapPIDs, name \in Names : add_process(pid, name)
    \/ \E pid \in SnapPIDs, resource \in SnapRIDs : allocate_resource(pid, resource)
    \/ \E pid \in SnapPIDs, resource \in SnapRIDs : set_waiting_for(pid, resource)
    \/ keep_system_state
    \/ clear_system

SpecSnap == Init /\ [][NextSnap]_vars

----------------------------------------------------------------------------
(* The allocation graph of the specification, read off the live store:      *)
(* a holds edge process -> resource for every resource in the process's     *)
(* held list, a waits edge resource -> process for the wait target.         *)

Registered == DOMAIN LiveContent.processes
HeldBy(p) == Range(LiveContent.processes[p].resources)
WaitOf(p) == LiveContent.processes[p].waiting_for

HoldsEdgesOf(p) == {<<PNode(p), RNode(r)>> : r \in HeldBy(p)}

AllocEdges ==
    UNION {HoldsEdgesOf(p) : p \in Registered}
    \cup {<<RNode(Val(WaitOf(p))), PNode(p)>> : p \in {q \in Registered : WaitOf(q) # None}}

AllocNodes == {e[1] : e \in AllocEdges} \cup {e[2] : e \in AllocEdges}

\* the nodes reached from the set S by walks of exactly k edges
RECURSIVE ReachIn(_, _, _)
ReachIn(E, S, k) ==
    IF k = 0 THEN S ELSE ReachIn(E, {e[2] : e \in {d \in E : d[1] \in S}}, k - 1)

\* a closed walk of at least 4 edges exists (one of at most |N| + 4 edges then does)
HasLongClosedWalk(E, N) ==
    \E n \in N : \E k \in 4..(Cardinality(N) + 4) : n \in ReachIn(E, {n}, k)

\* the paths of k distinct nodes
RECURSIVE PathsOfLen(_, _, _)
PathsOfLen(E, N, k) ==
    IF k = 1 THEN {<<n>> : n \in N}
    ELSE {Append(x[1], x[2][2]) :
            x \in {y \in PathsOfLen(E, N, k - 1) \X E :
                     y[2][1] = y[1][Len(y[1])] /\ y[2][2] \notin Range(y[1])}}

\* the edges a cycle, given as the list of its nodes, runs along
CycleEdges(c) == {<<c[i], c[(i % Len(c)) + 1]>> : i \in 1..Len(c)}

\* the simple cycles of k nodes, each as its set of edges (so that the
\* rotations of one cycle are one cycle)
RefCyclesOfLen(E, N, k) ==
    {CycleEdges(c) : c \in {q \in PathsOfLen(E, N, k) : <<q[k], q[1]>> \in E}}

RefCycles(E, N, kmin) == UNION {RefCyclesOfLen(E, N, k) : k \in kmin..Cardinality(N)}

\* the step is a call of detect_deadlocks() / the state is the one it left
DetectStep == last_op' = "detect_deadlocks"
Detected == last_op = "detect_deadlocks"

----------------------------------------------------------------------------
(* Claims settled under Spec *)

\* the store built by add_process(A), add_process(B), allocate_resource(A, X),
\* allocate_resource(B, Y), set_waiting_for(A, Y), set_waiting_for(B, X)
ClassicStore(A, B, X, Y) ==
    /\ Registered = {A, B}
    /\ LiveContent.processes[A].resources = <<X>>
    /\ LiveContent.processes[B].resources = <<Y>>
    /\ WaitOf(A) = Some(Y)
    /\ WaitOf(B) = Some(X)
    /\ DOMAIN LiveContent.resources = {X, Y}
    /\ LiveContent.resources[X] = <<A>>
    /\ LiveContent.resources[Y] = <<B>>

\* C1: in the classic two-process deadlock (A holds X and waits for Y, B holds
\* Y and waits for X) detect_deadlocks() returns exactly one cycle, of the 4
\* nodes P-A, P-B, R-X, R-Y, and appends exactly one record to the history.
C1_ClassicDeadlock ==
    [][\A A \in PIDs, B \in PIDs, X \in RIDs, Y \in RIDs :
         (A # B /\ X # Y /\ ClassicStore(A, B, X, Y) /\ DetectStep)
         => /\ last_ret' # None
            /\ Len(Val(last_ret')) = 1
            /\ Len(Val(last_ret')[1]) = 4
            /\ Range(Val(last_ret')[1]) = {PNode(A), PNode(B), RNode(X), RNode(Y)}
            /\ Len(detection_history') = Len(detection_history) + 1
            /\ SubSeq(detection_history', 1, Len(detection_history)) = detection_history
       ]_vars

C1_Witness ==
    /\ Detected
    /\ ClassicStore(1, 2, <<"X">>, <<"Y">>)
    /\ last_ret # None
    /\ Len(detection_history) = 1

\* C2: when the allocation graph has no closed walk of length >= 4,
\* detect_deadlocks() returns an empty result and leaves the history as it was.
C2_NoWalkNoDeadlock ==
    [][(DetectStep /\ ~HasLongClosedWalk(AllocEdges, AllocNodes))
         => (last_ret' = None /\ detection_history' = detection_history)]_vars

C2_Witness ==
    /\ Detected
    /\ last_ret = None
    /\ ~HasLongClosedWalk(AllocEdges, AllocNodes)
    /\ \E p \in Registered : HeldBy(p) # {} /\ WaitOf(p) # None
    /\ \E p \in Registered, q \in Registered :
          p # q /\ WaitOf(q) # None /\ Val(WaitOf(q)) \in HeldBy(p)

\* C6: allocate_resource and set_waiting_for with a pid that is not registered
\* return false and change neither the process map nor the resource index.
C6_UnknownPid ==
    [][\A pid \in PIDs, resource \in RIDs :
         (pid \notin DOMAIN processes
            /\ (allocate_resource(pid, resource) \/ set_waiting_for(pid, resource)))
         => (last_ret' = Some(FALSE) /\ UNCHANGED <<processes, resources, heap>>)]_vars

C6_Witness ==
    /\ last_op \in {"allocate_resource", "set_waiting_for"}
    /\ last_ret = Some(FALSE)
    /\ DOMAIN processes # {}
    /\ DOMAIN resources # {}

\* the graph has a cycle, and every cycle it has is a process that holds the
\* resource it waits for
OnlyTwoNodeCycles ==
    /\ RefCycles(AllocEdges, AllocNodes, 2) # {}
    /\ RefCycles(AllocEdges, AllocNodes, 3) = {}

AllLong(deadlocks) == \A i \in DOMAIN deadlocks : Len(deadlocks[i]) >= 4

\* C7: every cycle returned or recorded has at least 4 nodes, and a store whose
\* only cycles are process/resource pairs gives an empty result and no record.
C7_AtLeastFourNodes ==
    /\ [](/\ (Detected /\ last_ret # None) => AllLong(Val(last_ret))
          /\ \A i \in DOMAIN detection_history : AllLong(detection_history[i].deadlocks))
    /\ [][(DetectStep /\ OnlyTwoNodeCycles)
            => (last_ret' = None /\ detection_history' = detection_history)]_vars

C7_Witness ==
    /\ Detected
    /\ last_ret = None
    /\ OnlyTwoNodeCycles
    /\ \E p \in Registered : WaitOf(p) # None /\ Val(WaitOf(p)) \in HeldBy(p)

\* C10: clear_system() leaves no process and no resource, and a
\* detect_deadlocks() that follows it returns an empty result and appends nothing.
C10_ClearThenDetect ==
    /\ [](last_op = "clear_system" => (DOMAIN processes = {} /\ DOMAIN resources = {}))
    /\ [][(last_op = "clear_system" /\ DetectStep)
            => (last_ret' = None /\ detection_history' = detection_history)]_vars

C10_Witness ==
    /\ Detected
    /\ last_ret = None
    /\ DOMAIN processes = {}
    /\ DOMAIN resources = {}
    /\ detection_history # <<>>

----------------------------------------------------------------------------
(* Claims settled under SpecSnap *)

\* C4: the content of a snapshot returned by get_system_state() (every
\* process's held resources and wait target, every resource's holder list)
\* stays what it was when it was returned, whatever is called afterwards.
C4_SnapshotIndependent ==
    [][(snap # None /\ snap' = snap)
         => Content(Val(snap'), heap') = Content(Val(snap), heap)]_vars

----------------------------------------------------------------------------
(* Specification SpecGraph: detect_deadlocks() on stores of up to four      *)
(* processes.  The initial stores are built by the tracker's own calls:     *)
(* for each process add_process, allocate_resource for each resource it is  *)
(* to hold, set_waiting_for if it is to wait.                               *)

GraphHeld == 2          \* most resources a process is given

WideRIDs == {<<"X">>, <<"Y">>, <<"Z">>}
LeftRIDs == {<<"X">>, <<"Y">>}
RightRIDs == {<<"Z">>, <<"W">>}

\* what one process is given: the resources it holds, the resource it waits for
Plans(rids) ==
    [held : {SetToSeq(S) : S \in {T \in SUBSET rids : Cardinality(T) <= GraphHeld}},
     wait : {None} \cup {Some(r) : r \in rids}]

\* three processes over three resources, and two pairs of processes over two
\* disjoint pairs of resources
GraphPlans ==
    [{1, 2, 3} -> Plans(WideRIDs)]
    \cup {[p \in {1, 2, 3, 4} |-> IF p <= 2 THEN x[1][p] ELSE x[2][p]] :
             x \in [{1, 2} -> Plans(LeftRIDs)] \X [{3, 4} -> Plans(RightRIDs)]}

RECURSIVE AllocateAll(_, _, _)
AllocateAll(st, pid, held) ==
    IF held = <<>> THEN st
    ELSE AllocateAll(allocate_resource_call(st, pid, Head(held), {}).st, pid, Tail(held))

SetUpProcess(st, pid, plan) ==
    LET added == add_process_call(st, pid, "a", {}).st
        given == AllocateAll(added, pid, plan.held)
    IN  IF plan.wait = None THEN given
        ELSE set_waiting_for_call(given, pid, Val(plan.wait)).st

RECURSIVE SetUp(_, _, _)
SetUp(st, plans, todo) ==
    IF todo = {} THEN st
    ELSE LET pid == Min(todo)
         IN  SetUp(SetUpProcess(st, pid, plans[pid]), plans, todo \ {pid})

InitGraph ==
    /\ \E plans \in GraphPlans :
         LET st == SetUp(TrackerInit, plans, DOMAIN plans)
         IN  /\ processes = st.processes
             /\ resources = st.resources
             /\ heap = st.heap
    /\ running = TRUE
    /\ lock = None
    /\ detection_history = <<>>
    /\ snap = None
    /\ last_op = "init"
    /\ last_ret = None
    /\ pc = NoThreads
    /\ loc = NoThreads

NextGraph == detect_deadlocks

SpecGraph == InitGraph /\ [][NextGraph]_vars

----------------------------------------------------------------------------
(* Claims settled under SpecGraph *)

\* the cycles detect_deadlocks() returned, none if it returned None
Returned == IF last_ret = None THEN <<>> ELSE Val(last_ret)

\* C3: detect_deadlocks() returns every simple cycle of at least 4 nodes of the
\* allocation graph, each once up to rotation; deadlocks in disjoint parts of
\* the graph are all returned by the one call.
C3_AllSimpleCycles ==
    Detected =>
        /\ {CycleEdges(Returned[i]) : i \in DOMAIN Returned}
              = RefCycles(AllocEdges, AllocNodes, 4)
        /\ \A i \in DOMAIN Returned :
              Cardinality(Range(Returned[i])) = Len(Returned[i])
        /\ \A i \in DOMAIN Returned, j \in DOMAIN Returned :
              CycleEdges(Returned[i]) = CycleEdges(Returned[j]) => i = j

C3_Witness ==
    /\ Detected
    /\ Len(Returned) = 2
    /\ Range(Returned[1]) \cap Range(Returned[2]) = {}
    /\ Cardinality(RefCycles(AllocEdges, AllocNodes, 4)) = 2

\* C8: a process without a wait target is in no returned cycle; every process
\* node of a returned cycle is a registered process that has a wait target and
\* holds at least one resource.
C8_CycleProcessesWaitAndHold ==
    Detected =>
        \A i \in DOMAIN Returned : \A n \in Range(Returned[i]) :
            n[1] = "P" => \E p \in Registered :
                             /\ n = PNode(p)
                             /\ WaitOf(p) # None
                             /\ HeldBy(p) # {}

C8_Witness ==
    /\ Detected
    /\ Returned # <<>>
    /\ \E p \in Registered :
          /\ WaitOf(p) = None
          /\ Cardinality(HeldBy(p)) >= 2
          /\ \E r \in HeldBy(p) : RNode(r) \in Range(Returned[1])

\* the process that holds the resource p waits for
NextInRing(S, p) == CHOOSE q \in S : Val(WaitOf(p)) \in HeldBy(q)

RECURSIVE RingOrbit(_, _, _)
RingOrbit(S, p, k) ==
    IF k = 0 THEN {} ELSE {p} \cup RingOrbit(S, NextInRing(S, p), k - 1)

\* the processes of S form one ring: each holds one resource of its own and
\* waits for the resource held by the next; no other process holds or waits
IsRing(S) ==
    /\ Cardinality(S) >= 2
    /\ \A p \in S : Len(LiveContent.processes[p].resources) = 1 /\ WaitOf(p) # None
    /\ \A p \in S, q \in S : p # q => HeldBy(p) # HeldBy(q)
    /\ \A p \in S : \E q \in S : Val(WaitOf(p)) \in HeldBy(q)
    /\ \A p \in S : RingOrbit(S, p, Cardinality(S)) = S
    /\ \A p \in Registered \ S : HeldBy(p) = {} /\ WaitOf(p) = None

RingNodes(S) == {PNode(p) : p \in S} \cup UNION {{RNode(r) : r \in HeldBy(p)} : p \in S}

\* C9: a ring of n >= 2 processes and n distinct resources (each process holds
\* one and waits for the one the next holds) gives exactly one cycle, of 2n
\* nodes: the n processes and the n resources.
C9_Ring ==
    Detected =>
        \A S \in SUBSET Registered :
            IsRing(S) => /\ Len(Returned) = 1
                         /\ Len(Returned[1]) = 2 * Cardinality(S)
                         /\ Range(Returned[1]) = RingNodes(S)

C9_Witness ==
    /\ Detected
    /\ IsRing({1, 2, 3})
    /\ Len(Returned) = 1
    /\ Len(Returned[1]) = 6

\* a ring of two among four registered processes
C9_WitnessTwo == Detected /\ IsRing({1, 2}) /\ Cardinality(Registered) = 4

----------------------------------------------------------------------------
(* Specification SpecConc: two calling threads and the monitor thread, one  *)
(* statement per step.  pc[t] names the line the thread executes next.      *)

Callers == {"c1", "c2"}
Monitor == "monitor"
Threads == Callers \cup {Monitor}

NoLocals == [pid |-> 0, resource |-> <<>>, name |-> "", system_state |-> None]

InitConc ==
    /\ processes = TrackerInit.processes
    /\ resources = TrackerInit.resources
    /\ heap = TrackerInit.heap
    /\ running = TRUE
    /\ lock = None
    /\ detection_history = <<>>
    /\ snap = None
    /\ last_op = "init"
    /\ last_ret = None
    /\ pc = [t \in Threads |-> IF t = Monitor THEN "unstarted" ELSE "idle"]
    /\ loc = [t \in Threads |-> NoLocals]

\* Mutant of acquire: a lock that excludes nobody (a new Lock() for each `with`)
acquire_excludes_nobody(t) == lock' = Some(t)

\* `with self.lock:` on entry: wait until the lock is free, take it
acquire(t) == lock = None /\ lock' = Some(t)

\* `with self.lock:` on exit (also by return): free the lock
release(t) == lock' = None

Goto(t, label) == pc' = [pc EXCEPT ![t] = label]

\* the thread's statement changes the tracker to st
Store(st, lc) ==
    LET kept == Collect(st, HeldRefsIn(snap, lc))
    IN  /\ processes' = kept.processes
        /\ resources' = kept.resources
        /\ heap' = kept.heap

Others == <<running, detection_history, snap, last_op, last_ret>>

\* the call returns: its locals are gone
Return(t) ==
    /\ release(t)
    /\ Goto(t, "idle")
    /\ loc' = [loc EXCEPT ![t] = NoLocals]
    /\ Store(Tracker, loc')
    /\ UNCHANGED Others

\* a caller enters a tracker method and reaches its `with self.lock:`
Enter(t, label, locals) ==
    /\ pc[t] = "idle"
    /\ acquire(t)
    /\ Goto(t, label)
    /\ loc' = [loc EXCEPT ![t] = locals]
    /\ UNCHANGED <<processes, resources, heap>>
    /\ UNCHANGED Others

\* a statement under the lock
Statement(t, here, st, next) ==
    /\ pc[t] = here
    /\ Store(st, loc)
    /\ Goto(t, next)
    /\ UNCHANGED <<lock, loc>>
    /\ UNCHANGED Others

\* add_process, lines 32-39
add_enter(t, pid, name) ==
    Enter(t, "add_34", [NoLocals EXCEPT !.pid = pid, !.name = name])
add_34(t) ==
    Statement(t, "add_34",
              stmt_add_process(Tracker, loc[t].pid, loc[t].name, HeldRefs), "add_exit")
add_exit(t) == pc[t] = "add_exit" /\ Return(t)

\* allocate_resource, lines 41-47
alloc_enter(t, pid, resource) ==
    /\ pid \in DOMAIN processes => HeldRoom(pid) /\ HoldersRoom(resource)
    /\ Enter(t, "alloc_43", [NoLocals EXCEPT !.pid = pid, !.resource = resource])
alloc_43(t) ==
    Statement(t, "alloc_43", Tracker,
              IF loc[t].pid \in DOMAIN processes THEN "alloc_44" ELSE "alloc_47")
alloc_44(t) ==
    Statement(t, "alloc_44",
              stmt_holders_append(Tracker, loc[t].pid, loc[t].resource, HeldRefs),
              "alloc_45")
alloc_45(t) ==
    /\ loc[t].pid \in DOMAIN processes
    /\ Statement(t, "alloc_45",
                 stmt_held_append(Tracker, loc[t].pid, loc[t].resource), "alloc_46")
alloc_return(t) == pc[t] \in {"alloc_46", "alloc_47"} /\ Return(t)

\* set_waiting_for, lines 49-54
wait_enter(t, pid, resource) ==
    Enter(t, "wait_51", [NoLocals EXCEPT !.pid = pid, !.resource = resource])
wait_51(t) ==
    Statement(t, "wait_51", Tracker,
              IF loc[t].pid \in DOMAIN processes THEN "wait_52" ELSE "wait_54")
wait_52(t) ==
    /\ loc[t].pid \in DOMAIN processes
    /\ Statement(t, "wait_52",
                 stmt_set_waiting(Tracker, loc[t].pid, loc[t].resource), "wait_53")
wait_return(t) == pc[t] \in {"wait_53", "wait_54"} /\ Return(t)

\* get_system_state, lines 56-61: the two copies are made one after the other
get_enter(t) == Enter(t, "get_59", NoLocals)
get_59(t) ==
    /\ pc[t] = "get_59"
    /\ loc' = [loc EXCEPT ![t].system_state =
                 Some([processes |-> copy_processes(Tracker), resources |-> EmptyDict])]
    /\ Goto(t, "get_60")
    /\ UNCHANGED <<processes, resources, heap, lock>>
    /\ UNCHANGED Others
get_60(t) ==
    /\ pc[t] = "get_60"
    /\ loc' = [loc EXCEPT ![t].system_state =
                 Some([Val(@) EXCEPT !.resources = copy_resources(Tracker)])]
    /\ Goto(t, "get_61")
    /\ UNCHANGED <<processes, resources, heap, lock>>
    /\ UNCHANGED Others
get_return(t) == pc[t] = "get_61" /\ Return(t)

\* clear_system, lines 63-66
clear_enter(t) == Enter(t, "clear_65", NoLocals)
clear_65(t) == Statement(t, "clear_65", stmt_clear_processes(Tracker), "clear_66")
clear_66(t) == Statement(t, "clear_66", stmt_clear_resources(Tracker), "clear_exit")
clear_exit(t) == pc[t] = "clear_exit" /\ Return(t)

\* stop_monitoring, lines 68-69 (no lock)
stop_monitoring(t) ==
    /\ pc[t] = "idle"
    /\ running' = FALSE
    /\ UNCHANGED <<processes, resources, heap, lock, detection_history, snap,
                   last_op, last_ret, pc, loc>>

\* start_monitoring, lines 17-20
start_monitoring ==
    /\ pc[Monitor] = "unstarted"
    /\ Goto(Monitor, "mon_23")
    /\ UNCHANGED <<processes, resources, heap, running, lock, detection_history,
                   snap, last_op, last_ret, loc>>

MonitorStep(here, next) ==
    /\ pc[Monitor] = here
    /\ Goto(Monitor, next)
    /\ UNCHANGED <<processes, resources, heap, running, detection_history,
                   snap, last_op, last_ret, loc>>

\* Mutant of mon_23: the loop does not look at the flag (while True)
mon_23_ignores_flag == MonitorStep("mon_23", "mon_24") /\ UNCHANGED lock

\* Mutant of mon_24: the pass runs without taking the lock
mon_24_without_lock == MonitorStep("mon_24", "mon_25") /\ UNCHANGED lock

\* _monitor_system, lines 22-26
mon_23 == MonitorStep("mon_23", IF running THEN "mon_24" ELSE "mon_done") /\ UNCHANGED lock
mon_24 == MonitorStep("mon_24", "mon_25") /\ acquire(Monitor)
\* _update_processes, lines 28-30: pass
mon_25 == MonitorStep("mon_25", "mon_exit") /\ UNCHANGED lock
mon_exit == MonitorStep("mon_exit", "mon_26") /\ release(Monitor)
mon_26 == MonitorStep("mon_26", "mon_23") /\ UNCHANGED lock

CallerStep(t) ==
    \/ \E pid \in PIDs, name \in Names : add_enter(t, pid, name)
    \/ add_34(t)
    \/ add_exit(t)
    \/ \E pid \in PIDs, resource \in RIDs : alloc_enter(t, pid, resource)
    \/ alloc_43(t)
    \/ alloc_44(t)
    \/ alloc_45(t)
    \/ alloc_return(t)
    \/ \E pid \in PIDs, resource \in RIDs : wait_enter(t, pid, resource)
    \/ wait_51(t)
    \/ wait_52(t)
    \/ wait_return(t)
    \/ get_enter(t)
    \/ get_59(t)
    \/ get_60(t)
    \/ get_return(t)
    \/ clear_enter(t)
    \/ clear_65(t)
    \/ clear_66(t)
    \/ clear_exit(t)
    \/ stop_monitoring(t)

MonitorNext == mon_23 \/ mon_24 \/ mon_25 \/ mon_exit \/ mon_26

NextConc ==
    \/ \E t \in Callers : CallerStep(t)
    \/ start_monitoring
    \/ MonitorNext

SpecConc == InitConc /\ [][NextConc]_vars

----------------------------------------------------------------------------
(* Claims settled under SpecConc *)

\* a mutation has begun and is not finished: allocate_resource has appended to
\* the holder list and not yet to the held list, clear_system has emptied the
\* processes and not yet the resources
HalfDone == {"alloc_45", "clear_66"}

\* C5: what get_system_state() has captured when it returns is the store as it
\* is at that moment, and at that moment no mutation is half done: no
\* allocate_resource between its two appends, no clear_system between its two
\* clears.
C5_AtomicSnapshot ==
    \A t \in Callers :
        pc[t] = "get_61"
        => /\ Content(Val(loc[t].system_state), heap) = LiveContent
           /\ \A u \in Threads \ {t} : pc[u] \notin HalfDone

C5_Witness ==
    \E t \in Callers, u \in Callers :
        /\ pc[t] = "get_61"
        /\ pc[u] = "idle"
        /\ DOMAIN processes # {}
        /\ DOMAIN resources # {}
        /\ pc[Monitor] = "mon_24"

----------------------------------------------------------------------------
(* Further claims settled under Spec *)

\* C11: get_system_state() changes neither the process map nor the resource
\* index, and a second get_system_state() right after a first returns a
\* snapshot of the same content.
C11_ReadIdempotent ==
    /\ [](LET first == get_system_state_call(Tracker)
              second == get_system_state_call(first.st)
          IN  /\ first.st = Tracker
              /\ Content(Val(second.ret), second.st.heap)
                    = Content(Val(first.ret), first.st.heap))
    /\ [][last_op' = "get_system_state" => UNCHANGED store]_vars

C11_Witness ==
    /\ last_op = "get_system_state"
    /\ last_ret # None
    /\ Content(Val(last_ret), heap) = LiveContent
    /\ \E p \in Registered : HeldBy(p) # {} /\ WaitOf(p) # None
    /\ DOMAIN resources # {}

----------------------------------------------------------------------------
(* DeadlockResolver.suggest_resolutions                                      *)

\* node.startswith(c)
startswith(node, c) == Len(node) >= 1 /\ node[1] = c

\* node[1:]
after_first(node) == IF node = <<>> THEN <<>> ELSE Tail(node)

DigitValue(c) == CHOOSE d \in 0..9 : DigitChars[d + 1] = c

\* int(s) of a decimal string with an optional minus sign
RECURSIVE int(_)
int(s) ==
    IF s[1] = "-" THEN 0 - int(Tail(s))
    ELSE IF Len(s) = 1 THEN DigitValue(s[1])
    ELSE 10 * int(SubSeq(s, 1, Len(s) - 1)) + DigitValue(s[Len(s)])

\* lines 129-131: the set built by processes_in_deadlock.add(int(node[1:]))
processes_in(deadlock) ==
    {int(after_first(node)) : node \in {n \in Range(deadlock) : startswith(n, "P")}}

\* lines 132-133: the set built by resources_in_deadlock.add(node[1:])
resources_in(deadlock) ==
    {after_first(node) : node \in {n \in Range(deadlock) :
                                     ~startswith(n, "P") /\ startswith(n, "R")}}

\* list(a_set): the elements once each, in an order the set decides
ListsOf(S) == {s \in [1..Cardinality(S) -> S] : Range(s) = S}

\* a_set.pop(): one of the elements, which one the set decides
PopsOf(S) == IF S = {} THEN {None} ELSE {Some(x) : x \in S}

\* lines 136-141
process_termination(targets, lowest) ==
    [type |-> "process_termination",
     description |-> "Terminate one process involved in the deadlock",
     targets |-> targets,
     recommendation |-> <<"Terminate process: ">> \o Str(lowest) \o <<" (lowest PID)">>]

\* Mutant of resource_preemption: the resource popped before the set is listed
resource_preemption_pop_first(targets, popped) ==
    [type |-> "resource_preemption",
     description |-> "Preempt one resource involved in the deadlock",
     targets |-> SelectSeq(targets, LAMBDA r : r # popped),
     recommendation |-> <<"Preempt resource: ">> \o popped]

\* lines 144-149: the dict display evaluates 'targets' (the list of the whole
\* set) before the f-string that pops
resource_preemption(targets, popped) ==
    [type |-> "resource_preemption",
     description |-> "Preempt one resource involved in the deadlock",
     targets |-> targets,
     recommendation |-> <<"Preempt resource: ">> \o popped]

\* Mutant of lowest_pid: the highest pid
lowest_pid_is_max(S) == CHOOSE x \in S : \A y \in S : y <= x

\* line 140: min(processes_in_deadlock)
lowest_pid(S) == Min(S)

\* lines 125-151: the list returned, given the orders list() takes the two
\* sets in and the element pop() takes
resolutions_of(deadlock, ptargets, rtargets, popped) ==
    (IF processes_in(deadlock) # {}
     THEN <<process_termination(ptargets, lowest_pid(processes_in(deadlock)))>>
     ELSE <<>>)
    \o (IF resources_in(deadlock) # {}
        THEN <<resource_preemption(rtargets, Val(popped))>>
        ELSE <<>>)

\* src/deadlock_detector.py, lines 134-165: the same list under other keys
\* ('processes' and 'resources' for 'targets') and other texts
resolutions_of_psutil(deadlock, ptargets, rtargets, popped) ==
    (IF processes_in(deadlock) # {}
     THEN <<[type |-> "process_termination",
             description |-> "Terminate one of the processes involved in the deadlock",
             processes |-> ptargets,
             recommendation |-> <<"Terminate process with PID: ">>
                                  \o Str(lowest_pid(processes_in(deadlock)))
                                  \o <<" (oldest)">>]>>
     ELSE <<>>)
    \o (IF resources_in(deadlock) # {}
        THEN <<[type |-> "resource_preemption",
                description |-> "Preempt one of the resources involved in the deadlock",
                resources |-> rtargets,
                recommendation |-> <<"Preempt resource: ">> \o Val(popped)]>>
        ELSE <<>>)

\* Mutant of suggest_resolutions_call: the nodes taken off the list passed in
suggest_resolutions_call_consuming(deadlock, ptargets, rtargets, popped) ==
    [ret |-> Some(resolutions_of(deadlock, ptargets, rtargets, popped)),
     deadlock |-> <<>>]

\* lines 124-151: what the call returns and the list `deadlock` as the call
\* leaves it (the caller passes the list object kept in the detection record)
suggest_resolutions_call(deadlock, ptargets, rtargets, popped) ==
    [ret |-> Some(resolutions_of(deadlock, ptargets, rtargets, popped)),
     deadlock |-> deadlock]

\* src/deadlock_detector.py, lines 132-165
suggest_resolutions_psutil_call(deadlock, ptargets, rtargets, popped) ==
    [ret |-> Some(resolutions_of_psutil(deadlock, ptargets, rtargets, popped)),
     deadlock |-> deadlock]

\* the record of the last detection and the cycles it lists
last_detection == detection_history[Len(detection_history)]

\* the history once the i-th cycle list of the last record is what a call left
history_with(i, deadlock) ==
    [detection_history EXCEPT ![Len(detection_history)].deadlocks[i] = deadlock]

\* check_for_deadlocks, lines 237-250: resolver.suggest_resolutions(deadlock)
\* for the deadlocks of the list detect_deadlocks() has just returned and
\* recorded; the handler makes no other call in between
suggest_resolutions(i) ==
    /\ last_op \in {"detect_deadlocks", "suggest_resolutions"}
    /\ detection_history # <<>>
    /\ i \in DOMAIN last_detection.deadlocks
    /\ LET deadlock == last_detection.deadlocks[i]
       IN  \E ptargets \in ListsOf(processes_in(deadlock)),
              rtargets \in ListsOf(resources_in(deadlock)),
              popped \in PopsOf(resources_in(deadlock)) :
             LET r == suggest_resolutions_call(deadlock, ptargets, rtargets, popped)
             IN  /\ last_op' = "suggest_resolutions"
                 /\ last_ret' = r.ret
                 /\ detection_history' = history_with(i, r.deadlock)
    /\ UNCHANGED <<processes, resources, heap, running, lock, snap, pc, loc>>

\* src/deadlock_detector.py, show_resolution_options, lines 296-297:
\* suggest_resolutions(history[-1]['deadlocks'][0])
suggest_resolutions_psutil ==
    /\ detection_history # <<>>
    /\ LET deadlock == last_detection.deadlocks[1]
       IN  \E ptargets \in ListsOf(processes_in(deadlock)),
              rtargets \in ListsOf(resources_in(deadlock)),
              popped \in PopsOf(resources_in(deadlock)) :
             LET r == suggest_resolutions_psutil_call(deadlock, ptargets, rtargets, popped)
             IN  /\ last_op' = "suggest_resolutions_psutil"
                 /\ last_ret' = r.ret
                 /\ detection_history' = history_with(1, r.deadlock)
    /\ UNCHANGED <<processes, resources, heap, running, lock, snap, pc, loc>>

----------------------------------------------------------------------------
(* Specification SpecResolve: detect_deadlocks() on stores of three          *)
(* processes, then suggest_resolutions() on the cycles it recorded.          *)

ResolvePIDs == {0 - 1, 2, 10}

\* what one process is given: at most one resource to hold, at most one to wait for
ResolvePlans ==
    [held : {<<>>} \cup {<<r>> : r \in WideRIDs},
     wait : {None} \cup {Some(r) : r \in WideRIDs}]

\* the positions in the cycle list of the last detection
CycleIndexes ==
    IF detection_history = <<>> THEN {} ELSE DOMAIN last_detection.deadlocks

InitResolve ==
    /\ \E plans \in [ResolvePIDs -> ResolvePlans] :
         LET st == SetUp(TrackerInit, plans, DOMAIN plans)
         IN  /\ processes = st.processes
             /\ resources = st.resources
             /\ heap = st.heap
    /\ running = TRUE
    /\ lock = None
    /\ detection_history = <<>>
    /\ snap = None
    /\ last_op = "init"
    /\ last_ret = None
    /\ pc = NoThreads
    /\ loc = NoThreads

NextResolve ==
    \/ detect_deadlocks
    \/ \E i \in CycleIndexes : suggest_resolutions(i)
    \/ suggest_resolutions_psutil

SpecResolve == InitResolve /\ [][NextResolve]_vars

----------------------------------------------------------------------------
(* Claims settled under SpecResolve *)

\* the processes and the resources of a cycle, read off its nodes by name
ProcessIdsOf(cycle) == {p \in ResolvePIDs : PNode(p) \in Range(cycle)}
ResourceIdsOf(cycle) == {r \in WideRIDs : RNode(r) \in Range(cycle)}

\* every list suggest_resolutions(cycle) can return, in either source file
ResolutionsFor(cycle) ==
    {resolutions_of(cycle, ptargets, rtargets, popped) :
        ptargets \in ListsOf(processes_in(cycle)),
        rtargets \in ListsOf(resources_in(cycle)),
        popped \in PopsOf(resources_in(cycle))}
    \cup {resolutions_of_psutil(cycle, ptargets, rtargets, popped) :
            ptargets \in ListsOf(processes_in(cycle)),
            rtargets \in ListsOf(resources_in(cycle)),
            popped \in PopsOf(resources_in(cycle))}

\* the state is the one a suggest_resolutions call left
Suggested == last_op \in {"suggest_resolutions", "suggest_resolutions_psutil"}

OfType(resolutions, type) == SelectSeq(resolutions, LAMBDA x : x.type = type)

\* the list a resolution gives under 'targets' ('processes' / 'resources' in
\* src/deadlock_detector.py)
TargetsOf(x) ==
    IF "targets" \in DOMAIN x THEN x.targets
    ELSE IF "processes" \in DOMAIN x THEN x.processes
    ELSE x.resources

\* what a recommendation names: the text between its first and last piece
\* (process_termination), after its first piece (resource_preemption)
NamedPid(x) == SubSeq(x.recommendation, 2, Len(x.recommendation) - 1)
NamedResource(x) == Tail(x.recommendation)

TerminationRight(cycle, resolutions) ==
    LET ids == ProcessIdsOf(cycle)
        term == OfType(resolutions, "process_termination")
    IN  /\ Len(term) = 1
        /\ Range(TargetsOf(term[1])) = ids
        /\ Len(TargetsOf(term[1])) = Cardinality(ids)
        /\ NamedPid(term[1]) = Str(Min(ids))

\* C12: for a cycle with at least one process node suggest_resolutions gives
\* one process_termination resolution; its targets are the pids of the cycle,
\* each once, and its recommendation names the lowest of them.
C12_ProcessTermination ==
    /\ \A i \in CycleIndexes :
          LET cycle == last_detection.deadlocks[i]
          IN  ProcessIdsOf(cycle) # {}
              => \A resolutions \in ResolutionsFor(cycle) :
                    TerminationRight(cycle, resolutions)
    /\ Suggested
         => \E i \in CycleIndexes :
               TerminationRight(last_detection.deadlocks[i], Val(last_ret))

C12_Witness ==
    /\ last_op = "suggest_resolutions"
    /\ Range(TargetsOf(Val(last_ret)[1])) = {2, 10}
    /\ Val(last_ret)[1].recommendation = <<"Terminate process: ", "2", " (lowest PID)">>
    /\ ProcessIdsOf(last_detection.deadlocks[1]) = {2, 10}

PreemptionRight(cycle, resolutions) ==
    LET ids == ResourceIdsOf(cycle)
        pre == OfType(resolutions, "resource_preemption")
    IN  /\ Len(pre) = 1
        /\ Range(TargetsOf(pre[1])) = ids
        /\ NamedResource(pre[1]) \in Range(TargetsOf(pre[1]))
        /\ NamedResource(pre[1]) \in ids
        /\ resolutions[Len(resolutions)].type = "resource_preemption"
        /\ ProcessIdsOf(cycle) # {}
             => (Len(resolutions) = 2 /\ resolutions[1].type = "process_termination")

\* C13: for a cycle with at least one resource node suggest_resolutions gives
\* one resource_preemption resolution, last in the list and after the
\* process_termination one; its targets are all the resources of the cycle,
\* the recommended one included, and it recommends one of them.
C13_ResourcePreemption ==
    /\ \A i \in CycleIndexes :
          LET cycle == last_detection.deadlocks[i]
          IN  ResourceIdsOf(cycle) # {}
              => \A resolutions \in ResolutionsFor(cycle) :
                    PreemptionRight(cycle, resolutions)
    /\ Suggested
         => \E i \in CycleIndexes :
               PreemptionRight(last_detection.deadlocks[i], Val(last_ret))

C13_Witness ==
    /\ last_op = "suggest_resolutions"
    /\ Len(Val(last_ret)) = 2
    /\ Val(last_ret)[2].type = "resource_preemption"
    /\ Len(Val(last_ret)[2].targets) = 3
    /\ NamedResource(Val(last_ret)[2]) \in ResourceIdsOf(last_detection.deadlocks[1])

\* C14: suggest_resolutions changes neither the process map, nor the resource
\* index, nor the detection history, nor the cycle it was given (a list of
\* the last record).
C14_Advisory ==
    [][last_op' \in {"suggest_resolutions", "suggest_resolutions_psutil"}
         => UNCHANGED <<processes, resources, heap, detection_history>>]_vars

C14_Witness ==
    /\ last_op \in {"suggest_resolutions", "suggest_resolutions_psutil"}
    /\ Len(last_detection.deadlocks) = 2
    /\ Len(Val(last_ret)) = 2
    /\ DOMAIN processes # {}
    /\ DOMAIN resources # {}

----------------------------------------------------------------------------
(* Specification SpecHist: the calls that can run while the detector keeps   *)
(* its history: the tracker's mutations, detections, suggestions, reads of   *)
(* the history and passes of the maintenance task.                           *)

\* src/deadlock_detector.py, lines 123-125: return self.detection_history
get_detection_history ==
    /\ last_op' = "get_detection_history"
    /\ last_ret' = Some(detection_history)
    /\ UNCHANGED <<processes, resources, heap, running, lock, detection_history,
                   snap, pc, loc>>

\* _monitor_system, lines 23-25: one pass of the loop, run without
\* interruption: `with self.lock: self._update_processes()`, which is `pass`
update_processes ==
    /\ running
    /\ lock = None
    /\ last_op' = "_update_processes"
    /\ last_ret' = None
    /\ UNCHANGED <<processes, resources, heap, running, lock, detection_history,
                   snap, pc, loc>>

\* the allocations this caller asks for: each process its own resource
HistGrants == {<<1, <<"X">>>>, <<2, <<"Y">>>>}

NextHist ==
    \/ \E pid \in PIDs, name \in Names : add_process(pid, name)
    \/ \E g \in HistGrants : allocate_resource(g[1], g[2])
    \/ \E pid \in PIDs, resource \in RIDs : set_waiting_for(pid, resource)
    \/ clear_system
    \/ detect_deadlocks
    \/ \E i \in CycleIndexes : suggest_resolutions(i)
    \/ get_detection_history
    \/ update_processes

SpecHist == Init /\ [][NextHist]_vars

\* C15: a detect_deadlocks() that returns cycles appends one record holding
\* that cycle list after the records already there; one that returns nothing,
\* and every other call, leaves the history as it is; get_detection_history()
\* returns the records in the order they were appended.
C15_HistoryAppendOnly ==
    [][/\ (DetectStep /\ last_ret' # None)
            => detection_history'
                 = Append(detection_history, [deadlocks |-> Val(last_ret')])
       /\ (DetectStep /\ last_ret' = None) => detection_history' = detection_history
       /\ ~DetectStep => detection_history' = detection_history
       /\ last_op' = "get_detection_history" => Val(last_ret') = detection_history
      ]_vars

C15_Witness ==
    /\ last_op = "get_detection_history"
    /\ Len(detection_history) = 2
    /\ Val(last_ret) = detection_history
    /\ DOMAIN processes = {}

----------------------------------------------------------------------------
(* Specification SpecReg: a caller that registers processes under two names  *)

RegNames == {"a", "b"}

NextReg ==
    \/ \E pid \in PIDs, name \in RegNames : add_process(pid, name)
    \/ \E g \in HistGrants : allocate_resource(g[1], g[2])
    \/ \E pid \in PIDs, resource \in RIDs : set_waiting_for(pid, resource)
    \/ clear_system

SpecReg == Init /\ [][NextReg]_vars

\* self.processes[p], read through the heap
ProcessRecord(p) == heap[processes[p]]

\* C16: add_process(pid, name) never fails; it leaves pid registered under the
\* given name, holding nothing and waiting for nothing, whether or not pid
\* was registered before, and leaves every other process's record as it was.
C16_AddProcess ==
    /\ [](\A pid \in PIDs, name \in RegNames : ENABLED add_process(pid, name))
    /\ [][\A pid \in PIDs, name \in RegNames :
            (last_op' = "add_process" /\ add_process(pid, name))
            => /\ last_ret' = None
               /\ DOMAIN processes' = DOMAIN processes \cup {pid}
               /\ ProcessRecord(pid)'.name = name
               /\ ProcessRecord(pid)'.resources = <<>>
               /\ ProcessRecord(pid)'.waiting_for = None
               /\ \A q \in DOMAIN processes \ {pid} :
                     ProcessRecord(q)' = ProcessRecord(q)]_vars

\* pid 1 has been registered again, under another name, while it held X and
\* waited, and pid 2 still holds and waits
C16_Witness ==
    /\ last_op = "add_process"
    /\ DOMAIN processes = {1, 2}
    /\ ProcessRecord(1) = [name |-> "b", status |-> "running", resources |-> <<>>,
                           waiting_for |-> None]
    /\ <<"X">> \in DOMAIN resources
    /\ 1 \in Range(heap[resources[<<"X">>]])
    /\ ProcessRecord(2).name = "a"
    /\ ProcessRecord(2).resources = <<<<"Y">>>>
    /\ ProcessRecord(2).waiting_for # None

----------------------------------------------------------------------------
(* The holder index against the process records (Spec) *)

Count(s, x) == Cardinality({i \in DOMAIN s : s[i] = x})

\* self.resources[r] and self.processes[p]['resources'], empty when absent
HoldersOf(r) == IF r \in DOMAIN resources THEN heap[resources[r]] ELSE <<>>
HeldOf(p) == IF p \in DOMAIN processes THEN ProcessRecord(p).resources ELSE <<>>

\* C20: p occurs in the holder list of r as often as r occurs in the held
\* list of the registered process p, and every id in a holder list is a
\* registered process.
C20_IndexConsistent ==
    \A r \in RIDs :
        /\ \A p \in PIDs : Count(HoldersOf(r), p) = Count(HeldOf(p), r)
        /\ Range(HoldersOf(r)) \subseteq DOMAIN processes

----------------------------------------------------------------------------
(* Specification SpecLock: the threads of SpecConc, the callers working on   *)
(* one process and one resource.                                            *)

LockPIDs == {1}

LockCallerStep(t) ==
    \/ \E pid \in LockPIDs, name \in Names : add_enter(t, pid, name)
    \/ add_34(t)
    \/ add_exit(t)
    \/ \E pid \in LockPIDs, resource \in SnapRIDs : alloc_enter(t, pid, resource)
    \/ alloc_43(t)
    \/ alloc_44(t)
    \/ alloc_45(t)
    \/ alloc_return(t)
    \/ \E pid \in LockPIDs, resource \in SnapRIDs : wait_enter(t, pid, resource)
    \/ wait_51(t)
    \/ wait_52(t)
    \/ wait_return(t)
    \/ get_enter(t)
    \/ get_59(t)
    \/ get_60(t)
    \/ get_return(t)
    \/ clear_enter(t)
    \/ clear_65(t)
    \/ clear_66(t)
    \/ clear_exit(t)

NextLock ==
    \/ \E t \in Callers : LockCallerStep(t)
    \/ start_monitoring
    \/ MonitorNext

SpecLock == InitConc /\ [][NextLock]_vars


\* where a thread is when it is not inside a `with self.lock:` block
OutsideLock == {"idle", "unstarted", "mon_23", "mon_24", "mon_26", "mon_done"}

InCritical(t) == pc[t] \notin OutsideLock

ThreadStep(t) == IF t = Monitor THEN MonitorNext ELSE LockCallerStep(t)

\* C18: at most one of add_process, allocate_resource, set_waiting_for,
\* get_system_state, clear_system and a maintenance pass is inside its
\* critical section; whoever is inside (the maintenance pass included) holds
\* the lock; and the lock is never stuck: its holder is inside a critical
\* section and can take its next step.
C18_MutualExclusion ==
    /\ \A t \in Threads, u \in Threads : (InCritical(t) /\ InCritical(u)) => t = u
    /\ \A t \in Threads : InCritical(t) => lock = Some(t)
    /\ \A t \in Threads : lock = Some(t) => (InCritical(t) /\ ENABLED ThreadStep(t))

C18_Witness ==
    /\ pc["c1"] = "alloc_45"
    /\ pc["c2"] = "idle"
    /\ pc[Monitor] = "mon_24"
    /\ lock = Some("c1")
    /\ DOMAIN processes = {1}
    /\ DOMAIN resources = {<<"X">>}

----------------------------------------------------------------------------
(* Specification SpecStop: the maintenance thread, and one thread that       *)
(* registers processes, clears the system and stops the monitoring.  The     *)
(* maintenance thread is scheduled fairly: a step it can take it takes, and  *)
(* a lock that is free again and again it gets; a thread inside a `with`     *)
(* block runs on to the end of the block.                                    *)

InsideStep(t) ==
    add_34(t) \/ add_exit(t) \/ clear_65(t) \/ clear_66(t) \/ clear_exit(t)

NextStop ==
    \/ \E pid \in PIDs, name \in Names : add_enter("c1", pid, name)
    \/ add_34("c1")
    \/ add_exit("c1")
    \/ clear_enter("c1")
    \/ clear_65("c1")
    \/ clear_66("c1")
    \/ clear_exit("c1")
    \/ stop_monitoring("c1")
    \/ start_monitoring
    \/ MonitorNext

FairStop ==
    /\ WF_vars(mon_23 \/ mon_25 \/ mon_exit \/ mon_26)
    /\ SF_vars(mon_24)
    /\ WF_vars(InsideStep("c1"))

SpecStop == InitConc /\ [][NextStop]_vars /\ FairStop

\* C17: once stop_monitoring() has set the flag, a started maintenance thread
\* ends; having ended it never runs again; and once a pass has begun with the
\* flag set, the thread never again gets to begin a pass.
C17_StopMonitoring ==
    /\ (~running /\ pc[Monitor] # "unstarted") ~> (pc[Monitor] = "mon_done")
    /\ [][pc[Monitor] = "mon_done" => pc'[Monitor] = "mon_done"]_vars
    /\ []((~running /\ pc[Monitor] = "mon_25") => [](pc[Monitor] # "mon_24"))

C17_Witness ==
    /\ ~running
    /\ pc[Monitor] = "mon_done"
    /\ DOMAIN processes # {}
    /\ pc["c1"] = "add_exit"

----------------------------------------------------------------------------
(* src/deadlock_detector.py: the tracker fed by psutil.  Its maintenance     *)
(* pass rebuilds the process map from psutil.process_iter() and then the     *)
(* resource index from the process map.                                      *)

PsPIDs == {1, 2, 3}
PsStatuses == {"running", "sleeping"}

\* what psutil.process_iter(['pid', 'name', 'status']) can yield: the infos of
\* distinct processes, in some order
ProcessInfos == [pid : PsPIDs, name : Names, status : PsStatuses]

ProcessIters ==
    {s \in UNION {[1..n -> ProcessInfos] : n \in 0..Cardinality(PsPIDs)} :
        \A i \in DOMAIN s, j \in DOMAIN s : s[i].pid = s[j].pid => i = j}

\* lines 37-41: self.processes[proc.info['pid']] = {'name', 'status', 'resources': []}
stmt_add_psutil_process(st, info, held) ==
    LET ref == FreshRef("proc", info.pid, held)
        obj == [name |-> info.name, status |-> info.status, resources |-> <<>>]
    IN  [st EXCEPT !.processes = Put(st.processes, info.pid, ref),
                   !.heap = Put(st.heap, ref, obj)]

\* lines 35-43: the loop over process_iter
RECURSIVE update_processes_loop(_, _, _)
update_processes_loop(st, infos, held) ==
    IF infos = <<>> THEN st
    ELSE update_processes_loop(stmt_add_psutil_process(st, Head(infos), held),
                               Tail(infos), held)

\* lines 32-43: _update_processes
update_processes_psutil(st, infos, held) ==
    update_processes_loop(stmt_clear_processes(st), infos, held)

\* line 52: f"R{i%5}"
SimulatedResources == 5
resource_id(i) == <<"R">> \o Str(i % SimulatedResources)

\* lines 51-54: for i, pid in enumerate(pids), from position i on
RECURSIVE update_resources_loop(_, _, _, _)
update_resources_loop(st, pids, i, held) ==
    IF i >= Len(pids) THEN st
    ELSE update_resources_loop(
             stmt_held_append(stmt_holders_append(st, pids[i + 1], resource_id(i), held),
                              pids[i + 1], resource_id(i)),
             pids, i + 1, held)

\* lines 45-54: _update_resources; pids = list(self.processes.keys()) is the
\* order the processes were inserted in
update_resources(st, infos, held) ==
    update_resources_loop(stmt_clear_resources(st),
                          [i \in DOMAIN infos |-> infos[i].pid], 0, held)

\* lines 26-29: one pass of _monitor_system, run without interruption
monitor_pass_psutil(infos) ==
    /\ running
    /\ lock = None
    /\ Commit("_update_resources",
              [st |-> update_resources(update_processes_psutil(Tracker, infos, HeldRefs),
                                       infos, HeldRefs),
               ret |-> None])
    /\ UNCHANGED <<running, lock, detection_history, snap, pc, loc>>

NextPsutil ==
    \/ \E infos \in ProcessIters : monitor_pass_psutil(infos)
    \/ get_system_state

SpecPsutil == Init /\ [][NextPsutil]_vars

\* the step is a pass of the maintenance task
PassStep == last_op' \in {"_update_processes", "_update_resources"}

\* C19: a pass of the maintenance task leaves every holder list and every
\* process's held resources as the callers' allocate_resource calls made
\* them: it adds no allocation and discards none.
C19_NoInventedAllocations ==
    [][PassStep
         => /\ \A r \in DOMAIN resources \cup DOMAIN resources' :
                  HoldersOf(r)' = HoldersOf(r)
            /\ \A p \in DOMAIN processes \cup DOMAIN processes' :
                  HeldOf(p)' = HeldOf(p)]_vars

----------------------------------------------------------------------------
(* The shape of a reported cycle (SpecGraph) *)

IsProcessNode(n) == startswith(n, "P")
IsResourceNode(n) == startswith(n, "R")

\* the node after position i of the cycle c, the first node after the last
NodeAfter(c, i) == c[(i % Len(c)) + 1]

WellFormedCycle(c) ==
    /\ Cardinality(Range(c)) = Len(c)
    /\ Len(c) % 2 = 0
    /\ Cardinality({i \in DOMAIN c : IsProcessNode(c[i])})
         = Cardinality({i \in DOMAIN c : IsResourceNode(c[i])})
    /\ \A i \in DOMAIN c :
          /\ IsProcessNode(c[i]) # IsProcessNode(NodeAfter(c, i))
          /\ IsProcessNode(c[i])
               => \E p \in Registered :
                     /\ c[i] = PNode(p)
                     /\ \E r \in HeldBy(p) : NodeAfter(c, i) = RNode(r)
          /\ ~IsProcessNode(c[i])
               => /\ IsResourceNode(c[i])
                  /\ \E p \in Registered :
                        /\ NodeAfter(c, i) = PNode(p)
                        /\ WaitOf(p) # None
                        /\ c[i] = RNode(Val(WaitOf(p)))

\* C22: every cycle detect_deadlocks() returns or records has pairwise
\* distinct nodes, alternates process and resource nodes (so it is of even
\* length with as many of each), follows a holds edge out of each process
\* node and a waits edge out of each resource node, the step from the last
\* node back to the first included.
C22_WellFormedCycles ==
    Detected =>
        /\ \A i \in DOMAIN Returned : WellFormedCycle(Returned[i])
        /\ \A k \in DOMAIN detection_history :
              \A i \in DOMAIN detection_history[k].deadlocks :
                 WellFormedCycle(detection_history[k].deadlocks[i])

C22_Witness ==
    /\ Detected
    /\ Len(Returned) = 2
    /\ Range(Returned[1]) \cap Range(Returned[2]) # {}
    /\ \E i \in DOMAIN Returned : Len(Returned[i]) = 6
    /\ detection_history # <<>>

----------------------------------------------------------------------------
(* set_waiting_for on a registered pid (Spec) *)

WaitsEdgesOf(p) == waits_edges(p, ProcessRecord(p))

\* C23: set_waiting_for(pid, r) on a registered pid returns true and makes r
\* the wait target of pid in place of any earlier one, so that in every state
\* a process has at most one wait target and at most one waits edge; the call
\* leaves alone the registered pids, every held list, every other field of
\* every record, the wait target of every other process and the holder index.
C23_SetWaitingFor ==
    /\ [](\A p \in DOMAIN processes : Cardinality(WaitsEdgesOf(p)) <= 1)
    /\ [][\A pid \in DOMAIN processes : \A resource \in RIDs :
            set_waiting_for(pid, resource) =>
                /\ last_ret' = Some(TRUE)
                /\ DOMAIN processes' = DOMAIN processes
                /\ ProcessRecord(pid)' =
                      [ProcessRecord(pid) EXCEPT !.waiting_for = Some(resource)]
                /\ WaitsEdgesOf(pid)' = {<<RNode(resource), PNode(pid)>>}
                /\ \A q \in DOMAIN processes \ {pid} :
                      ProcessRecord(q)' = ProcessRecord(q)
                /\ DOMAIN resources' = DOMAIN resources
                /\ \A r \in DOMAIN resources : HoldersOf(r)' = HoldersOf(r)
                /\ detection_history' = detection_history]_vars

C23_Witness ==
    /\ last_op = "set_waiting_for"
    /\ last_ret = Some(TRUE)
    /\ DOMAIN processes = PIDs
    /\ ProcessRecord(1).waiting_for = Some(<<"Y">>)
    /\ ProcessRecord(2).waiting_for = Some(<<"X">>)
    /\ ProcessRecord(1).resources # <<>>
    /\ \E r \in DOMAIN resources : HoldersOf(r) # <<>>

----------------------------------------------------------------------------
(* os.py: detect_deadlock(allocation, request) *)

\* the names of the sample input of os.py, lines 7-14, and one more of each
OsProcesses == {"P1", "P2", "P3"}
OsResources == {"R1", "R2", "R3"}

\* a dict process -> resource: at most one resource per process
OsDicts == UNION {[keys -> OsResources] : keys \in SUBSET OsProcesses}

\* Mutant of allocation_edges: the allocation drawn from the process to the
\* resource
allocation_edges_from_process(allocation) ==
    {<<proc, allocation[proc]>> : proc \in DOMAIN allocation}

\* lines 22-23: G.add_edge(res, proc)
allocation_edges(allocation) ==
    {<<allocation[proc], proc>> : proc \in DOMAIN allocation}

\* lines 24-25: G.add_edge(proc, res)
request_edges(request) ==
    {<<proc, request[proc]>> : proc \in DOMAIN request}

\* lines 19-25; add_edge adds both ends as nodes
os_graph(allocation, request) ==
    LET edges == allocation_edges(allocation) \cup request_edges(request)
    IN  [nodes |-> {ed[1] : ed \in edges} \cup {ed[2] : ed \in edges},
         edges |-> edges]

\* the edges of a circuit in the form find_cycle gives them with
\* orientation="original": (tail, head, "forward")
cycle_edges(c) == [i \in DOMAIN c |-> <<c[i], NodeAfter(c, i), "forward">>]

\* line 29: nx.find_cycle(G, orientation="original") returns the edges of the
\* first circuit its depth-first search closes, which depends on the order
\* of the nodes; every circuit from every start is a possible outcome. No
\* outcome stands for NetworkXNoCycle.
find_cycle(G) ==
    {cycle_edges(c) : c \in UNION {CircuitsFrom(G, G.nodes, n, <<n>>) : n \in G.nodes}}

\* lines 18-32, for the circuit the search closes first
detect_deadlock_call(allocation, request) ==
    LET G == os_graph(allocation, request)
    IN  IF find_cycle(G) # {}
        THEN {<<TRUE, cycles>> : cycles \in find_cycle(G)}
        ELSE {<<FALSE, <<>>>>}

OsLocals(allocation, request) == [allocation |-> allocation, request |-> request]

InitOs ==
    /\ processes = TrackerInit.processes
    /\ resources = TrackerInit.resources
    /\ heap = TrackerInit.heap
    /\ running = TRUE
    /\ lock = None
    /\ detection_history = <<>>
    /\ snap = None
    /\ last_op = "init"
    /\ last_ret = None
    /\ pc = [t \in {"main"} |-> "main_65"]
    /\ \E allocation \in OsDicts : \E request \in OsDicts :
          loc = [t \in {"main"} |-> OsLocals(allocation, request)]

\* line 65: deadlock_detected, cycles = detect_deadlock(allocation, request)
detect_deadlock ==
    /\ pc["main"] = "main_65"
    /\ \E r \in detect_deadlock_call(loc["main"].allocation, loc["main"].request) :
          /\ last_op' = "detect_deadlock"
          /\ last_ret' = Some(r)
    /\ pc' = [pc EXCEPT !["main"] = "main_68"]
    /\ UNCHANGED <<store, running, lock, detection_history, snap, loc>>

NextOs == detect_deadlock

SpecOs == InitOs /\ [][NextOs]_vars

\* what the claim speaks of, from the two dicts
OsAllocation == loc["main"].allocation
OsRequest == loc["main"].request
OsEdges ==
    {<<OsAllocation[p], p>> : p \in DOMAIN OsAllocation}
        \cup {<<p, OsRequest[p]>> : p \in DOMAIN OsRequest}
OsNodes == OsProcesses \cup OsResources
OsHasCycle ==
    \E n \in OsNodes : \E k \in 1..Cardinality(OsNodes) : n \in ReachIn(OsEdges, {n}, k)
HoldsAndRequestsSame ==
    \E p \in DOMAIN OsAllocation \cap DOMAIN OsRequest : OsAllocation[p] = OsRequest[p]

OsClosedWalk(edges) ==
    /\ edges # <<>>
    /\ \A i \in DOMAIN edges :
          /\ <<edges[i][1], edges[i][2]>> \in OsEdges
          /\ edges[i][2] = NodeAfter(edges, i)[1]

\* C25: detect_deadlock(allocation, request) returns (True, edges) exactly
\* when the graph with an edge resource -> process for each allocation entry
\* and process -> resource for each request entry has a directed cycle, and
\* (False, []) otherwise; the edges returned are edges of that graph, each
\* ending where the next begins and the last where the first begins; a
\* process that requests the resource it holds is reported, a cycle of two
\* nodes.
C25_OsDetectDeadlock ==
    last_op = "detect_deadlock" =>
        LET ret == Val(last_ret)
        IN  /\ ret[1] = OsHasCycle
            /\ ~ret[1] => ret[2] = <<>>
            /\ ret[1] => OsClosedWalk(ret[2])
            /\ HoldsAndRequestsSame => ret[1]
            /\ (HoldsAndRequestsSame /\ Cardinality(DOMAIN OsRequest) = 1)
                  => Len(ret[2]) = 2

C25_Witness ==
    /\ last_op = "detect_deadlock"
    /\ Val(last_ret)[1]
    /\ Len(Val(last_ret)[2]) = 2
    /\ HoldsAndRequestsSame
    /\ DOMAIN OsAllocation = {"P1", "P2"}

\* the sample input of lines 7-14 is reported with its cycle of four edges
C25_WitnessSample ==
    /\ last_op = "detect_deadlock"
    /\ OsAllocation = [p \in {"P1", "P2"} |-> IF p = "P1" THEN "R1" ELSE "R2"]
    /\ OsRequest = [p \in {"P1", "P2"} |-> IF p = "P1" THEN "R2" ELSE "R1"]
    /\ Len(Val(last_ret)[2]) = 4

----------------------------------------------------------------------------
(* detect_deadlocks() statement by statement, beside the tracker's callers
   (SpecDetect, SpecDetectors).  Each detector thread makes one call.  The tracker's methods
   run under the lock and are taken whole, as in Spec; detect_deadlocks()
   holds the lock only inside get_system_state() (line 78) and reads the
   process records afterwards without it. *)

Detectors == {"d1", "d2"}
Detecting == DOMAIN pc

\* locals of detect_deadlocks() (system_state, deadlocks) and the value its
\* caller receives (line 237: deadlocks = self.detector.detect_deadlocks())
DetectLocals == [system_state |-> None, deadlocks |-> None, result |-> None]

InitDetect ==
    /\ processes = TrackerInit.processes
    /\ resources = TrackerInit.resources
    /\ heap = TrackerInit.heap
    /\ running = TRUE
    /\ lock = None
    /\ detection_history = <<>>
    /\ snap = None
    /\ last_op = "init"
    /\ last_ret = None
    /\ pc = [d \in {"d1"} |-> "detect_78"]
    /\ loc = [d \in {"d1"} |-> DetectLocals]

\* line 78: system_state = self.tracker.get_system_state(), the two copies
\* made under the lock
detect_78(d) ==
    /\ pc[d] = "detect_78"
    /\ lock = None
    /\ loc' = [loc EXCEPT ![d].system_state = get_system_state_call(Tracker).ret]
    /\ pc' = [pc EXCEPT ![d] = "detect_83"]
    /\ UNCHANGED <<store, running, lock, detection_history, snap, last_op, last_ret>>

\* lines 79-104: the graph is built from the snapshot's dicts and from the
\* records they refer to, as these are when the loop of line 92 reads them,
\* then the cycles are listed and filtered.  The loop is one step: a
\* mutation between two of its iterations has no effect a mutation before
\* or after the loop does not have on one of the records.
detect_83(d) ==
    /\ pc[d] = "detect_83"
    /\ loc' = [loc EXCEPT ![d].deadlocks =
                  Some(find_deadlocks(Val(loc[d].system_state), heap))]
    /\ pc' = [pc EXCEPT ![d] = "detect_106"]
    /\ UNCHANGED <<store, running, lock, detection_history, snap, last_op, last_ret>>

\* lines 106-117: the append to detection_history, one list operation, and
\* the return; the locals are dropped
detect_106(d) ==
    LET deadlocks == Val(loc[d].deadlocks)
        st == Collect(Tracker, HeldRefsIn(snap, [loc EXCEPT ![d] = DetectLocals]))
    IN  /\ pc[d] = "detect_106"
        /\ detection_history' = history_after(detection_history, deadlocks, <<>>)
        /\ loc' = [loc EXCEPT ![d] = [DetectLocals EXCEPT !.result = detect_result(deadlocks)]]
        /\ pc' = [pc EXCEPT ![d] = "returned"]
        /\ heap' = st.heap
        /\ UNCHANGED <<processes, resources, running, lock, snap, last_op, last_ret>>

DetectorStep(d) == detect_78(d) \/ detect_83(d) \/ detect_106(d)

NextDetect ==
    \/ \E pid \in PIDs, name \in Names : add_process(pid, name)
    \/ \E g \in HistGrants : allocate_resource(g[1], g[2])
    \/ \E pid \in PIDs, resource \in RIDs : set_waiting_for(pid, resource)
    \/ clear_system
    \/ DetectorStep("d1")

SpecDetect == InitDetect /\ [][NextDetect]_vars

\* two detectors beside a caller, from a store in which process 1 holds X
\* and process 2 holds Y, each waiting for nothing or for either resource
DetectPlans ==
    [PIDs -> [held : {<<>>}, wait : {None} \cup {Some(r) : r \in RIDs}]]

InitDetectors ==
    /\ \E plans \in DetectPlans :
         LET waits == SetUp(TrackerInit, plans, DOMAIN plans)
             st == allocate_resource_call(
                       allocate_resource_call(waits, 1, <<"X">>, {}).st,
                       2, <<"Y">>, {}).st
         IN  /\ processes = st.processes
             /\ resources = st.resources
             /\ heap = st.heap
    /\ running = TRUE
    /\ lock = None
    /\ detection_history = <<>>
    /\ snap = None
    /\ last_op = "init"
    /\ last_ret = None
    /\ pc = [d \in Detectors |-> "detect_78"]
    /\ loc = [d \in Detectors |-> DetectLocals]

NextDetectors ==
    \/ \E pid \in PIDs, resource \in RIDs : set_waiting_for(pid, resource)
    \/ clear_system
    \/ \E d \in Detectors : DetectorStep(d)

SpecDetectors == InitDetectors /\ [][NextDetectors]_vars

\* the cycles a detector between line 78 and line 92 is going to find, as
\* sets of edges
CyclesAhead(d, hp) ==
    {CycleEdges(c) : c \in Range(find_deadlocks(Val(loc[d].system_state), hp))}

\* C21: from the instant detect_deadlocks() has taken its snapshot, no call
\* of another thread changes the cycles it is going to return and record:
\* they are the qualifying cycles of the store as it was at that instant.
C21_DetectsSnapshotState ==
    [][\A d \in Detecting :
          (pc[d] = "detect_83" /\ pc'[d] = "detect_83")
              => CyclesAhead(d, heap)' = CyclesAhead(d, heap)]_vars

Finished == {d \in Detectors : pc[d] = "returned"}
Reported == {d \in Finished : loc[d].result # None}

\* C24: with several detect_deadlocks() calls running beside each other and
\* beside the tracker's callers, the history has as many records as calls
\* have returned a list of cycles, and these lists are the lists of the
\* records, one record each: no record is lost, doubled or overwritten.
C24_NoRecordLost ==
    /\ Len(detection_history) = Cardinality(Reported)
    /\ \E f \in [Reported -> DOMAIN detection_history] :
          /\ \A d, e \in Reported : f[d] = f[e] => d = e
          /\ \A d \in Reported : detection_history[f[d]].deadlocks = Val(loc[d].result)

C24_Witness ==
    /\ Finished = Detectors
    /\ Reported = Detectors
    /\ Len(detection_history) = 2
    /\ loc["d1"].result = loc["d2"].result

\* one call reported and the other did not
C24_WitnessOne ==
    /\ Finished = Detectors
    /\ Cardinality(Reported) = 1
    /\ Len(detection_history) = 1

====
